---- MODULE Spec2Model ----
(***************************************************************************)
(* A model of package pbsql (src/main.go): the four query builders         *)
(* BuildCreateQuery, BuildReadQuery, BuildUpdateQuery and BuildDeleteQuery, *)
(* the helpers notDefault and getDefault, and the placeholder resolver     *)
(* sqlx.Named they all end with.                                           *)
(*                                                                         *)
(* A Go string is a sequence of one-character strings, so that             *)
(* strings.Replace and strings.ReplaceAll act on the characters the        *)
(* builders wrote.  A struct type is a sequence of reflect.StructField     *)
(* records; the struct value is the sequence of its field values, each     *)
(* written as a Go literal.                                                *)
(***************************************************************************)
EXTENDS Integers, Sequences, FiniteSets, TLC

\* Number of fields of the struct types the model enumerates.
NumFields == 2

-----------------------------------------------------------------------------
(* Package strings.                                                        *)

\* strings.Index(s, substr), 1-based; 0 when substr does not occur in s.
Index(s, substr) ==
    LET P == {i \in 1..(Len(s) - Len(substr) + 1) :
                 SubSeq(s, i, i + Len(substr) - 1) = substr}
    IN  IF P = {} THEN 0 ELSE CHOOSE i \in P : \A j \in P : i <= j

\* strings.Replace(s, old, new, 1): the first occurrence only.
ReplaceFirst(s, old, new) ==
    LET i == Index(s, old)
    IN  IF i = 0 THEN s
        ELSE SubSeq(s, 1, i - 1) \o new \o SubSeq(s, i + Len(old), Len(s))

\* strings.ReplaceAll(s, old, new): every non-overlapping occurrence, left to right.
RECURSIVE ReplaceAll(_, _, _)
ReplaceAll(s, old, new) ==
    LET i == Index(s, old)
    IN  IF i = 0 THEN s
        ELSE SubSeq(s, 1, i - 1) \o new
             \o ReplaceAll(SubSeq(s, i + Len(old), Len(s)), old, new)

-----------------------------------------------------------------------------
(* reflect: the struct type and its value.                                 *)

\* The package path reflect reports for an unexported field.
Pkg == "pbsql"

\* reflect.Value.CanInterface for the field of an addressable struct.
CanInterface(typeField) == typeField.PkgPath = ""

\* reflect.StructTag.Get(key).
TagGet(typeField, key) == typeField.Tag[key]

\* The name BuildDeleteQuery looks up with FieldByName.
ActiveName == "IsActive"

\* reflect.Type.FieldByName(name): the index of the field, 0 when absent.
FieldByName(t, name) ==
    LET P == {i \in 1..Len(t) : t[i].Name = name}
    IN  IF P = {} THEN 0 ELSE CHOOSE i \in P : \A j \in P : i <= j

-----------------------------------------------------------------------------
(* The text constants of src/main.go.                                      *)

sUPDATE     == <<"U", "P", "D", "A", "T", "E", " ">>                 \* "UPDATE "
sSET        == <<" ", "S", "E", "T", " ">>                           \* " SET "
sWHERE      == <<"W", "H", "E", "R", "E", " ">>                      \* "WHERE "
sSpWHERESp  == <<" ", "W", "H", "E", "R", "E", " ">>                 \* " WHERE "
sCommaWHERE == <<",", " ", "W", "H", "E", "R", "E">>                 \* ", WHERE"
sSpWHERE    == <<" ", "W", "H", "E", "R", "E">>                      \* " WHERE"
sEqColon    == <<" ", "=", " ", ":">>                                \* " = :"
sComma      == <<",">>                                               \* ","
sCommaSp    == <<",", " ">>                                          \* ", "
sDELETE     == <<"D", "E", "L", "E", "T", "E", " ", "F", "R", "O", "M", " ">>  \* "DELETE FROM "
sINSERT     == <<"I", "N", "S", "E", "R", "T", " ", "I", "N", "T", "O", " ">>  \* "INSERT INTO "
sSpParen    == <<" ", "(">>                                          \* " ("
sParen      == <<"(">>                                               \* "("
sClose      == <<")">>                                               \* ")"
sColon      == <<":">>                                               \* ":"
sVALUES     == <<")", " ", "V", "A", "L", "U", "E", "S", " ">>       \* ") VALUES "
sParenComma == <<"(", ",", " ">>                                     \* "(, "
sSELECT     == <<"S", "E", "L", "E", "C", "T", " ">>                 \* "SELECT "
sWHEREtrue  == <<" ", "W", "H", "E", "R", "E", " ", "t", "r", "u", "e">>  \* " WHERE true"
sAND        == <<" ", "A", "N", "D", " ">>                           \* " AND "
sLIKE       == <<" ", "L", "I", "K", "E", " ", ":">>                 \* " LIKE :"
sIfnull     == <<"i", "f", "n", "u", "l", "l", "(">>                 \* "ifnull("
sCoalesce   == <<"c", "o", "a", "l", "e", "s", "c", "e", "(">>       \* "coalesce("
sAs         == <<")", " ", "a", "s", " ">>                           \* ") as "
sFROM       == <<"F", "R", "O", "M", " ">>                           \* "FROM "
sCommaFROM  == <<",", " ", "F", "R", "O", "M">>                      \* ", FROM"
sSpFROM     == <<" ", "F", "R", "O", "M">>                           \* " FROM"
sZero       == <<"0">>                                               \* "0"
sZeroFloat  == <<"0", ".", "0">>                                     \* "0.0"
sQuotes     == <<"'", "'">>                                          \* "''"
sQuestion   == <<"?">>                                               \* "?"

-----------------------------------------------------------------------------
(* Field values.  A value is written as its Go literal; Nil is the nil     *)
(* interface, which only a nil interface-typed field yields.               *)

Nil == "nil"

\* `notDefault` checks if a value is set to its uninitialized default.
notDefault(typeName, fieldVal) ==
    CASE typeName = "int32"   -> fieldVal # "0"
      [] typeName = "float64" -> fieldVal # "0"
      [] typeName = "string"  -> fieldVal # ""
      [] OTHER                -> fieldVal # Nil

\* The type names getDefault has a literal for.
IntegerTypes == {"byte", "rune", "uint", "int", "uint8", "uint16", "uint32",
                 "uint64", "int8", "int16", "int32", "int64"}
FloatTypes   == {"float32", "float64"}

\* A getDefault that falls back to "0" for a type it has no literal for.
getDefaultLenient(typeName) ==
    CASE typeName \in FloatTypes -> [panic |-> FALSE, lit |-> sZeroFloat]
      [] typeName = "string"     -> [panic |-> FALSE, lit |-> sQuotes]
      [] OTHER                   -> [panic |-> FALSE, lit |-> sZero]

\* `getDefault` returns the literal for sql ifnull statements, or panics.
getDefault(typeName) ==
    CASE typeName \in IntegerTypes -> [panic |-> FALSE, lit |-> sZero]
      [] typeName \in FloatTypes   -> [panic |-> FALSE, lit |-> sZeroFloat]
      [] typeName = "bool"         -> [panic |-> FALSE, lit |-> sZero]
      [] typeName = "string"       -> [panic |-> FALSE, lit |-> sQuotes]
      [] OTHER                     -> [panic |-> TRUE,  lit |-> <<>>]

-----------------------------------------------------------------------------
(* sqlx.Named(query, arg): the named-parameter resolver.                   *)

\* The characters a placeholder name is made of.
NameRunes == {"a", "b", "c", "d", "e", "f", "g", "h", "i", "j", "k", "l", "m",
              "n", "o", "p", "q", "r", "s", "t", "u", "v", "w", "x", "y", "z",
              "A", "B", "C", "D", "E", "F", "G", "H", "I", "J", "K", "L", "M",
              "N", "O", "P", "Q", "R", "S", "T", "U", "V", "W", "X", "Y", "Z",
              "0", "1", "2", "3", "4", "5", "6", "7", "8", "9", "_", "."}

\* The last position of the name that starts after the colon at position i.
NameEnd(qs, i) ==
    LET stop == {k \in (i + 1)..Len(qs) : qs[k] \notin NameRunes}
    IN  IF stop = {} THEN Len(qs)
        ELSE (CHOOSE k \in stop : \A m \in stop : k <= m) - 1

\* Every `:name` of qs, left to right, replaced by the positional marker `?`;
\* the names in the order they occur (repeated names are kept).
RECURSIVE compileNamedQuery(_, _, _)
compileNamedQuery(qs, rebound, names) ==
    LET i == Index(qs, sColon)
    IN  IF i = 0 THEN [query |-> rebound \o qs, names |-> names]
        ELSE compileNamedQuery(SubSeq(qs, NameEnd(qs, i) + 1, Len(qs)),
                               rebound \o SubSeq(qs, 1, i - 1) \o sQuestion,
                               Append(names, SubSeq(qs, i + 1, NameEnd(qs, i))))

\* The field a name resolves to: the first exported field tagged db:"<name>";
\* 0 when the struct has none.
Traversal(t, name) ==
    LET P == {i \in 1..Len(t) : t[i].PkgPath = "" /\ TagGet(t[i], "db") = name}
    IN  IF name = <<>> \/ P = {} THEN 0
        ELSE CHOOSE i \in P : \A j \in P : i <= j

ErrNil      == "nil"
ErrNotFound == "could not find name"

\* sqlx.Named: (query with positional markers, args in placeholder order, nil),
\* or ("", no args, error) when a name matches no tagged field.
Named(query, t, src) ==
    LET c == compileNamedQuery(query, <<>>, <<>>)
    IN  IF \E k \in 1..Len(c.names) : Traversal(t, c.names[k]) = 0
        THEN [sql |-> <<>>, args |-> <<>>, err |-> ErrNotFound]
        ELSE [sql  |-> c.query,
              args |-> [k \in 1..Len(c.names) |-> src[Traversal(t, c.names[k])]],
              err  |-> ErrNil]

-----------------------------------------------------------------------------
(* BuildUpdateQuery.                                                        *)

\* A mask lookup that takes a zero value under the key for an absent key.
InMaskNonZero(fieldMask, name) ==
    name \in DOMAIN fieldMask /\ fieldMask[name] # 0

\* `_, ok := fieldMask[typeField.Name]`: the key is present, whatever its value.
InMask(fieldMask, name) == name \in DOMAIN fieldMask

\* The loop over the fields: the SET terms go to builder, the identity
\* predicate to predicate.
RECURSIVE UpdateLoop(_, _, _, _, _)
UpdateLoop(t, fieldMask, i, builder, predicate) ==
    IF i > Len(t) THEN [builder |-> builder, predicate |-> predicate]
    ELSE LET typeField == t[i]
             dbName    == TagGet(typeField, "db")
         IN  IF CanInterface(typeField) /\ dbName # <<>>
             THEN IF TagGet(typeField, "primary_key") # <<>>
                  THEN UpdateLoop(t, fieldMask, i + 1, builder,
                                  predicate \o sWHERE \o dbName \o sEqColon \o dbName)
                  ELSE IF InMask(fieldMask, typeField.Name)
                  THEN UpdateLoop(t, fieldMask, i + 1,
                                  builder \o dbName \o sEqColon \o dbName \o sComma,
                                  predicate)
                  ELSE UpdateLoop(t, fieldMask, i + 1, builder, predicate)
             ELSE UpdateLoop(t, fieldMask, i + 1, builder, predicate)

\* The cleanup of the separator before WHERE.
UpdateCleanup(s) == ReplaceFirst(s, sCommaWHERE, sSpWHERE)

\* The text BuildUpdateQuery hands to sqlx.Named.
UpdateStmt(target, t, fieldMask) ==
    LET l == UpdateLoop(t, fieldMask, 1, sUPDATE \o target \o sSET, <<>>)
    IN  UpdateCleanup(l.builder \o l.predicate)

-----------------------------------------------------------------------------
(* BuildDeleteQuery.                                                        *)

\* A head that never degrades to a soft delete.
DeleteHeadHard(target, t) == sDELETE \o target \o sSpWHERESp

\* The head of the statement: a soft delete when the type has an IsActive field.
DeleteHead(target, t) ==
    LET isActive == FieldByName(t, ActiveName)
    IN  IF isActive # 0
        THEN sUPDATE \o target \o sSET \o TagGet(t[isActive], "db") \o sEqColon
             \o TagGet(t[isActive], "db") \o sSpWHERESp
        ELSE sDELETE \o target \o sSpWHERESp

\* The loop over the fields: the predicate of the first primary_key field,
\* after which the loop breaks.
RECURSIVE DeleteLoop(_, _, _)
DeleteLoop(t, i, builder) ==
    IF i > Len(t) THEN builder
    ELSE IF TagGet(t[i], "primary_key") # <<>>
         THEN builder \o TagGet(t[i], "db") \o sEqColon \o TagGet(t[i], "db")
         ELSE DeleteLoop(t, i + 1, builder)

\* The text BuildDeleteQuery hands to sqlx.Named.
DeleteStmt(target, t) == DeleteLoop(t, 1, DeleteHead(target, t))

-----------------------------------------------------------------------------
(* BuildCreateQuery.                                                        *)

\* The loop over the fields: the column list goes to cols, the placeholders
\* to vals.  valField.Interface() panics on an unexported field.
RECURSIVE CreateLoop(_, _, _, _, _)
CreateLoop(t, src, i, cols, vals) ==
    IF i > Len(t) THEN [panic |-> FALSE, cols |-> cols, vals |-> vals]
    ELSE LET typeField    == t[i]
             typeName     == typeField.Type
             isPrimaryKey == TagGet(typeField, "primary_key") # <<>>
             tag          == TagGet(typeField, "db")
             sep          == IF i # 1 THEN sCommaSp ELSE <<>>
         IN  IF ~CanInterface(typeField)
             THEN [panic |-> TRUE, cols |-> <<>>, vals |-> <<>>]
             ELSE IF notDefault(typeName, src[i]) /\ tag # <<>> /\ ~isPrimaryKey
             THEN CreateLoop(t, src, i + 1, cols \o sep \o tag,
                             vals \o sep \o sColon \o tag)
             ELSE CreateLoop(t, src, i + 1, cols, vals)

\* The cleanup of the separator written before the first column.
CreateCleanup(s) == ReplaceAll(s, sParenComma, sParen)

\* The text BuildCreateQuery hands to sqlx.Named, unless the loop panics.
CreateStmt(target, t, src) ==
    LET l == CreateLoop(t, src, 1, sINSERT \o target \o sSpParen, sParen)
    IN  IF l.panic THEN [panic |-> TRUE, text |-> <<>>]
        ELSE [panic |-> FALSE,
              text  |-> CreateCleanup(l.cols \o sVALUES \o l.vals \o sClose)]

-----------------------------------------------------------------------------
(* BuildReadQuery.                                                          *)

\* The dialect value that selects coalesce.
PgsqlDriver == "pgsql"

\* The null-coalescing function for the value of GRPC_SQL_DRIVER.
NullHandler(sqlDriver) == IF sqlDriver = PgsqlDriver THEN sCoalesce ELSE sIfnull

\* The projection item of one field, with its trailing separator.
ReadField(typeField, nullHandler) ==
    LET dbName == TagGet(typeField, "db")
    IN  IF TagGet(typeField, "nullable") # <<>>
        THEN nullHandler \o dbName \o sCommaSp \o getDefault(typeField.Type).lit
             \o sAs \o dbName \o sCommaSp
        ELSE IF dbName # <<>> THEN dbName \o sCommaSp ELSE <<>>

\* The filter of one field.
ReadPredicate(typeField, fieldVal) ==
    LET dbName == TagGet(typeField, "db")
    IN  IF CanInterface(typeField) /\ notDefault(typeField.Type, fieldVal)
           /\ dbName # <<>>
        THEN sAND \o dbName
             \o (IF typeField.Type = "string" THEN sLIKE ELSE sEqColon) \o dbName
        ELSE <<>>

\* The loop over the fields: the projection goes to fields, the filters to
\* predicate.  getDefault panics on a nullable field of an unsupported type.
RECURSIVE ReadLoop(_, _, _, _, _, _)
ReadLoop(t, src, nullHandler, i, fields, predicate) ==
    IF i > Len(t) THEN [panic |-> FALSE, fields |-> fields, predicate |-> predicate]
    ELSE IF TagGet(t[i], "nullable") # <<>> /\ getDefault(t[i].Type).panic
         THEN [panic |-> TRUE, fields |-> <<>>, predicate |-> <<>>]
         ELSE ReadLoop(t, src, nullHandler, i + 1,
                       fields \o ReadField(t[i], nullHandler),
                       predicate \o ReadPredicate(t[i], src[i]))

\* The cleanup of the separator written after the last projection item.
ReadCleanup(s) == ReplaceFirst(s, sCommaFROM, sSpFROM)

\* The text BuildReadQuery hands to sqlx.Named, unless the loop panics.
ReadStmt(target, t, src, sqlDriver) ==
    LET l == ReadLoop(t, src, NullHandler(sqlDriver), 1, <<>>, sWHEREtrue)
    IN  IF l.panic THEN [panic |-> TRUE, text |-> <<>>]
        ELSE [panic |-> FALSE,
              text  |-> ReadCleanup(sSELECT \o l.fields \o sFROM \o target
                                    \o l.predicate)]

-----------------------------------------------------------------------------
(* The state: a struct type, a value of it, the process environment and    *)
(* the last builder call with what it returned.                            *)

VARIABLES
    typ,              \* the struct type of source: its fields in declaration order
    source,           \* the field values of the record
    GRPC_SQL_DRIVER,  \* the environment variable BuildReadQuery reads
    call              \* the last call: operation, field mask, outcome

vars == <<typ, source, GRPC_SQL_DRIVER, call>>

\* The target table of every call.
Target == <<"t">>

\* The names and db tags of the fields by position.
ExportedName   == <<"F1", "F2", "F3", "F4", "F5">>
UnexportedName == <<"f1", "f2", "f3", "f4", "f5">>
Column == << <<"c", "1">>, <<"c", "2">>, <<"c", "3">>, <<"c", "4">>, <<"c", "5">> >>

Positions == 1..NumFields

\* The zero (z = 0) and a non-zero (z = 1) value of a type, as Go literals.
ValueOf(typeName, z) ==
    CASE typeName = "int32"   -> IF z = 0 THEN "0" ELSE "7"
      [] typeName = "int64"   -> IF z = 0 THEN "0" ELSE "9"
      [] typeName = "float64" -> IF z = 0 THEN "0" ELSE "1.5"
      [] typeName = "string"  -> IF z = 0 THEN "" ELSE "x%"
      [] typeName = "bool"    -> IF z = 0 THEN "false" ELSE "true"
      [] OTHER                -> IF z = 0 THEN "[]string(nil)" ELSE "[]string{x}"

\* A struct field declaration at position i.  shape gives the type name, the
\* tags present and whether the field is exported; active makes the field
\* the one named IsActive.
StructField(i, shape, active) ==
    [Name    |-> IF active = i THEN ActiveName
                 ELSE IF shape.exported THEN ExportedName[i] ELSE UnexportedName[i],
     PkgPath |-> IF shape.exported THEN "" ELSE Pkg,
     Type    |-> shape.type,
     Tag     |-> [db          |-> IF shape.db THEN Column[i] ELSE <<>>,
                  nullable    |-> IF shape.nullable THEN <<"y">> ELSE <<>>,
                  primary_key |-> IF shape.pk THEN <<"y">> ELSE <<>>]]

\* The shapes of a field: every combination of the given type names and of
\* the tags and visibilities allowed.
Shapes(types, dbs, nullables, pks, exporteds) ==
    [type : types, db : dbs, nullable : nullables, pk : pks, exported : exporteds]

\* The struct types of NumFields fields over a set of shapes; at most one
\* field is named IsActive, and that field is exported.
StructTypes(shapes, actives) ==
    {[i \in Positions |-> StructField(i, f[i], a)] :
        <<f, a>> \in {x \in [Positions -> shapes] \X actives :
                         x[2] \in Positions => x[1][x[2]].exported}}

\* The records of a struct type: every field at its zero or at a non-zero value.
Records(t) ==
    {[i \in Positions |-> ValueOf(t[i].Type, z[i])] : z \in [Positions -> {0, 1}]}

\* The field masks of a call: any set of field names, each mapped to an int32.
MaskValues == {0, 1}
FieldMasks(t) ==
    UNION {[S -> {v}] : <<S, v>> \in (SUBSET {t[i].Name : i \in Positions}) \X MaskValues}

NoCall == [op |-> "none", fieldMask |-> <<>>, outcome |-> "none",
           named |-> <<>>, sql |-> <<>>, args |-> <<>>, err |-> ErrNil]

\* What a call leaves: a panic, or what sqlx.Named returned for the text.
Outcome(op, fieldMask, stmt) ==
    IF stmt.panic
    THEN [op |-> op, fieldMask |-> fieldMask, outcome |-> "panic",
          named |-> <<>>, sql |-> <<>>, args |-> <<>>, err |-> ErrNil]
    ELSE LET r == Named(stmt.text, typ, source)
         IN  [op |-> op, fieldMask |-> fieldMask, outcome |-> "return",
              named |-> stmt.text, sql |-> r.sql, args |-> r.args, err |-> r.err]

\* The builders are synchronous: a call starts when the last one has returned.
Idle == call.op = "none"

BuildCreateQuery ==
    /\ Idle
    /\ call' = Outcome("create", <<>>, CreateStmt(Target, typ, source))
    /\ UNCHANGED <<typ, source, GRPC_SQL_DRIVER>>

BuildDeleteQuery ==
    /\ Idle
    /\ call' = Outcome("delete", <<>>,
                       [panic |-> FALSE, text |-> DeleteStmt(Target, typ)])
    /\ UNCHANGED <<typ, source, GRPC_SQL_DRIVER>>

BuildReadQuery ==
    /\ Idle
    /\ call' = Outcome("read", <<>>,
                       ReadStmt(Target, typ, source, GRPC_SQL_DRIVER))
    /\ UNCHANGED <<typ, source, GRPC_SQL_DRIVER>>

BuildUpdateQuery ==
    /\ Idle
    /\ \E fieldMask \in FieldMasks(typ) :
          call' = Outcome("update", fieldMask,
                          [panic |-> FALSE, text |-> UpdateStmt(Target, typ, fieldMask)])
    /\ UNCHANGED <<typ, source, GRPC_SQL_DRIVER>>

\* The caller takes what the call returned (or recovers from its panic).
Return ==
    /\ ~Idle
    /\ call' = NoCall
    /\ UNCHANGED <<typ, source, GRPC_SQL_DRIVER>>

\* The values of GRPC_SQL_DRIVER: unset, the alternate dialect, another one.
Drivers == {"", PgsqlDriver, "mysql"}

InitOver(types, drivers) ==
    /\ typ \in types
    /\ source \in Records(typ)
    /\ GRPC_SQL_DRIVER \in drivers
    /\ call = NoCall

\* Update calls: int32 fields with or without a column, with or without the
\* primary_key tag, exported or not.
UpdateTypes ==
    StructTypes(Shapes({"int32"}, BOOLEAN, {FALSE}, BOOLEAN, BOOLEAN), {0})

InitUpdate == InitOver(UpdateTypes, {""})

NextUpdate == BuildUpdateQuery \/ Return

SpecUpdate == InitUpdate /\ [][NextUpdate]_vars

\* Delete calls: as for Update, and any one exported field may be IsActive.
DeleteTypes ==
    StructTypes(Shapes({"int32"}, BOOLEAN, {FALSE}, BOOLEAN, BOOLEAN),
                0..NumFields)

InitDelete == InitOver(DeleteTypes, {""})

NextDelete == BuildDeleteQuery \/ Return

SpecDelete == InitDelete /\ [][NextDelete]_vars

\* The type names of the fields; "" is the name reflect reports for an unnamed
\* type such as []string.
TypeNames == {"int32", "int64", "float64", "string", ""}

\* Create calls: fields of every type name, with or without a column, with or
\* without the primary_key tag, exported or not.
CreateTypes ==
    StructTypes(Shapes(TypeNames, BOOLEAN, {FALSE}, BOOLEAN, BOOLEAN), {0})

InitCreate == InitOver(CreateTypes, {""})

NextCreate == BuildCreateQuery \/ Return

SpecCreate == InitCreate /\ [][NextCreate]_vars

\* Read calls: fields of a type of each kind, with or without a column,
\* nullable or not, exported or not, under every value of GRPC_SQL_DRIVER.
ReadTypeNames == {"int32", "bool", "float64", "string", ""}

ReadTypes ==
    StructTypes(Shapes(ReadTypeNames, BOOLEAN, BOOLEAN, {FALSE}, BOOLEAN), {0})

InitRead == InitOver(ReadTypes, Drivers)

NextRead == BuildReadQuery \/ Return

SpecRead == InitRead /\ [][NextRead]_vars

\* All four builders on one record: exported int32 and string fields with or
\* without a column and the primary_key tag, unexported int32 fields, and any
\* one exported field may be IsActive.
AllTypes ==
    StructTypes(Shapes({"int32", "string"}, BOOLEAN, {FALSE}, BOOLEAN, {TRUE})
                \cup Shapes({"int32"}, BOOLEAN, {FALSE}, BOOLEAN, {FALSE}),
                0..NumFields)

Init == InitOver(AllTypes, {""})

Next ==
    \/ BuildCreateQuery
    \/ BuildDeleteQuery
    \/ BuildReadQuery
    \/ BuildUpdateQuery
    \/ Return

Spec == Init /\ [][Next]_vars

-----------------------------------------------------------------------------
(* Properties.                                                             *)

Returned == call.outcome = "return"
Panicked == call.outcome = "panic"
Succeeded == Returned /\ call.err = ErrNil

HasColumn(i)    == TagGet(typ[i], "db") # <<>>
IsPrimaryKey(i) == TagGet(typ[i], "primary_key") # <<>>
IsNullable(i)   == TagGet(typ[i], "nullable") # <<>>
IsExported(i)   == typ[i].PkgPath = ""
IsZero(i)       == source[i] = ValueOf(typ[i].Type, 0)

\* strings.Contains(s, substr).
Contains(s, substr) == Index(s, substr) # 0

\* strings.HasPrefix(s, prefix).
HasPrefix(s, prefix) ==
    Len(prefix) <= Len(s) /\ SubSeq(s, 1, Len(prefix)) = prefix

\* strings.Count(s, substr): the number of non-overlapping occurrences.
RECURSIVE Count(_, _)
Count(s, substr) ==
    LET i == Index(s, substr)
    IN  IF i = 0 THEN 0
        ELSE 1 + Count(SubSeq(s, i + Len(substr), Len(s)), substr)

\* The part of s after the first occurrence of mark (empty when there is none).
After(s, mark) ==
    IF Index(s, mark) = 0 THEN <<>>
    ELSE SubSeq(s, Index(s, mark) + Len(mark), Len(s))

\* The part of s before the first occurrence of mark (all of s when there is none).
Before(s, mark) ==
    IF Index(s, mark) = 0 THEN s ELSE SubSeq(s, 1, Index(s, mark) - 1)

sWHEREkw == <<"W", "H", "E", "R", "E">>                              \* "WHERE"

\* The SET clauses of an UPDATE statement: what stands between SET and WHERE.
SetClauses(text) == Before(After(text, sSET), sWHEREkw)

\* The text has the SET term `<col> = :<col>` of field i.
HasSetTerm(text, i) ==
    /\ HasColumn(i)
    /\ Contains(SetClauses(text),
                TagGet(typ[i], "db") \o sEqColon \o TagGet(typ[i], "db"))

\* C1 as stated: BuildUpdateQuery's text has the SET term of a field exactly
\* when the field's name is a key of the mask, the field has a column and is
\* not primary_key-tagged, whatever the field's value and the mask's value.
C1_MaskGatedAsStated ==
    call.op = "update" =>
        \A i \in Positions :
            HasSetTerm(call.named, i) <=>
                /\ typ[i].Name \in DOMAIN call.fieldMask
                /\ HasColumn(i)
                /\ ~IsPrimaryKey(i)

\* C1 amended: BuildUpdateQuery's text has the SET term of a field exactly
\* when the field's name is a key of the mask, the field has a column, is not
\* primary_key-tagged and is exported, whatever the field's value and the
\* value stored under the mask key.
C1_MaskGated ==
    call.op = "update" =>
        \A i \in Positions :
            HasSetTerm(call.named, i) <=>
                /\ typ[i].Name \in DOMAIN call.fieldMask
                /\ HasColumn(i)
                /\ ~IsPrimaryKey(i)
                /\ IsExported(i)

\* An update whose mask names, with the value 0, a zero-valued exported column
\* (its term is present) and an unexported column (its term is absent), or
\* leaves a changed exported column out of the mask (its term is absent).
C1_Witness ==
    /\ call.op = "update"
    /\ \E i \in Positions :
          /\ typ[i].Name \in DOMAIN call.fieldMask
          /\ call.fieldMask[typ[i].Name] = 0
          /\ HasColumn(i) /\ ~IsPrimaryKey(i) /\ IsExported(i) /\ IsZero(i)
          /\ HasSetTerm(call.named, i)
    /\ \E j \in Positions :
          /\ HasColumn(j) /\ ~IsPrimaryKey(j) /\ ~IsZero(j)
          /\ \/ typ[j].Name \notin DOMAIN call.fieldMask
             \/ ~IsExported(j)
          /\ ~HasSetTerm(call.named, j)

\* The fields tagged primary_key, and the first of them in declaration order.
PkFields == {i \in Positions : IsPrimaryKey(i)}
FirstPk  == CHOOSE i \in PkFields : \A j \in PkFields : i <= j

\* The identity predicate `<col> = :<col>` of field i.
IdentityPredicate(i) == TagGet(typ[i], "db") \o sEqColon \o TagGet(typ[i], "db")

sCommaWHEREkw == <<",", "W", "H", "E", "R", "E">>                    \* ",WHERE"

\* C5: for a record with a primary-key field, BuildUpdateQuery's text is
\* `UPDATE <table> SET <set-clauses> WHERE <pk> = :<pk>` and has no comma
\* directly before WHERE, with or without whitespace between them.
C5_NoCommaBeforeWhere ==
    (/\ call.op = "update"
     /\ Cardinality(PkFields) = 1
     /\ HasColumn(FirstPk) /\ IsExported(FirstPk)) =>
        /\ HasPrefix(call.named, sUPDATE \o Target \o sSET)
        /\ After(call.named, sWHERE) = IdentityPredicate(FirstPk)
        /\ ~Contains(call.named, sCommaWHEREkw)
        /\ ~Contains(call.named, sCommaWHERE)

\* C6: with more than one primary_key-tagged field, BuildUpdateQuery and
\* BuildDeleteQuery take their WHERE predicate from the first of them only:
\* the text ends with that one identity predicate, and BuildUpdateQuery's text
\* has one WHERE keyword.
C6_FirstPrimaryKeyOnly ==
    (/\ call.op \in {"update", "delete"}
     /\ Cardinality(PkFields) > 1
     /\ \A i \in PkFields : HasColumn(i) /\ IsExported(i)) =>
        /\ After(call.named, sWHERE) = IdentityPredicate(FirstPk)
        /\ call.op = "update" => Count(call.named, sWHEREkw) = 1

\* The type has an IsActive field that carries a column.
HasActiveColumn ==
    \E i \in Positions : typ[i].Name = ActiveName /\ HasColumn(i)

\* C2: BuildDeleteQuery's text is a soft delete (`UPDATE <table> SET ...`)
\* exactly when the type has an IsActive field with a column, and a hard
\* delete (`DELETE FROM <table> WHERE ...`) for every other type.
C2_SoftDeleteIffActiveColumn ==
    call.op = "delete" =>
        IF HasActiveColumn
        THEN HasPrefix(call.named, sUPDATE \o Target \o sSET)
        ELSE HasPrefix(call.named, sDELETE \o Target \o sSpWHERESp)

sDot == <<".">>                                                      \* "."

\* The column of field i qualified by the target table: `<table>.<col>`.
Qualified(i) == Target \o sDot \o TagGet(typ[i], "db")

\* C9: for a type with an IsActive column A and a primary-key column K,
\* BuildDeleteQuery(T, record) returns without error the text
\* `UPDATE T SET T.A = ? WHERE T.K = ?`.
C9_DeleteQualifiesColumns ==
    (/\ call.op = "delete"
     /\ HasActiveColumn
     /\ PkFields # {}
     /\ HasColumn(FirstPk) /\ IsExported(FirstPk)
     /\ typ[FirstPk].Name # ActiveName) =>
        /\ Succeeded
        /\ call.sql = sUPDATE \o Target \o sSET
                      \o Qualified(FieldByName(typ, ActiveName))
                      \o <<" ", "=", " ", "?">> \o sSpWHERESp
                      \o Qualified(FirstPk) \o <<" ", "=", " ", "?">>

\* Sequence s without its element i.
Without(s, i) == SubSeq(s, 1, i - 1) \o SubSeq(s, i + 1, Len(s))

\* The text a builder assembles for a type, a record, a mask and a driver.
TextOf(op, t, src, fieldMask, sqlDriver) ==
    CASE op = "create" -> CreateStmt(Target, t, src).text
      [] op = "read"   -> ReadStmt(Target, t, src, sqlDriver).text
      [] op = "update" -> UpdateStmt(Target, t, fieldMask)
      [] op = "delete" -> DeleteStmt(Target, t)

\* C4: for each of the four builders, a field without a column contributes
\* nothing to the text: the text is the one the builder assembles for the
\* record without that field, whatever the field's other tags and name.
C4_ColumnOmission ==
    Returned =>
        \A i \in Positions :
            ~HasColumn(i) =>
                call.named = TextOf(call.op, Without(typ, i), Without(source, i),
                                    call.fieldMask, GRPC_SQL_DRIVER)

\* The kind of a type name: integer, floating-point, string or other.
KindOf(typeName) ==
    CASE typeName \in {"int", "int8", "int16", "int32", "int64", "uint", "uint8",
                       "uint16", "uint32", "uint64"}  -> "integer"
      [] typeName \in {"float32", "float64"}          -> "float"
      [] typeName = "string"                          -> "string"
      [] typeName = "bool"                            -> "bool"
      [] OTHER                                        -> "other"

\* Field i is at the zero value of an integer, floating-point or string kind.
AtZeroValue(i) ==
    KindOf(typ[i].Type) \in {"integer", "float", "string"} /\ IsZero(i)

\* The column list and the value list of an INSERT statement.
ColumnList(text) == Before(After(text, sSpParen), sVALUES)
ValueList(text)  == After(text, sVALUES)

\* C3: a column whose field is at the zero value of its integer,
\* floating-point or string kind is absent from BuildCreateQuery's column and
\* value lists and from BuildReadQuery's predicate; otherwise (a non-zero
\* value, or a field of another kind) it stands once in BuildReadQuery's
\* predicate and, unless primary-key, once in each list of BuildCreateQuery.
C3_ZeroValueElision ==
    Returned =>
        \A i \in Positions :
            HasColumn(i) =>
                LET col  == TagGet(typ[i], "db")
                    once == IF AtZeroValue(i) THEN 0 ELSE 1
                IN  /\ (call.op = "create" /\ (AtZeroValue(i) \/ ~IsPrimaryKey(i))) =>
                           /\ Count(ColumnList(call.named), col) = once
                           /\ Count(ValueList(call.named), sColon \o col) = once
                    /\ call.op = "read" =>
                           Count(After(call.named, sWHEREtrue), sColon \o col) = once

\* The literal that stands for a null column of a kind.
DefaultLiteral(kind) ==
    CASE kind \in {"integer", "bool"} -> sZero
      [] kind = "float"               -> sZeroFloat
      [] kind = "string"              -> sQuotes
      [] OTHER                        -> <<>>

\* The projection item of a field that has a column.
ProjectionItem(i, nullFn) ==
    IF IsNullable(i)
    THEN nullFn \o TagGet(typ[i], "db") \o sCommaSp
         \o DefaultLiteral(KindOf(typ[i].Type)) \o sAs \o TagGet(typ[i], "db")
    ELSE TagGet(typ[i], "db")

\* The projection items of the fields i..NumFields that have a column, each
\* followed by `, ` but the last, which a space follows.
RECURSIVE ProjectionList(_, _)
ProjectionList(i, nullFn) ==
    IF i > NumFields THEN <<>>
    ELSE IF ~HasColumn(i) THEN ProjectionList(i + 1, nullFn)
    ELSE ProjectionItem(i, nullFn)
         \o (IF \E j \in (i + 1)..NumFields : HasColumn(j)
             THEN sCommaSp ELSE <<" ">>)
         \o ProjectionList(i + 1, nullFn)

\* C7: BuildReadQuery's text is SELECT, one item per field that has a column
\* in declaration order (`<nullFn>(<col>, <default>) as <col>` when nullable,
\* `<col>` otherwise) separated by `, `, then `FROM <table> WHERE true` and the
\* filters; <nullFn> is coalesce when GRPC_SQL_DRIVER is pgsql, else ifnull.
C7_ReadProjection ==
    (call.op = "read" /\ Returned) =>
        HasPrefix(call.named,
                  sSELECT
                  \o ProjectionList(1, IF GRPC_SQL_DRIVER = "pgsql"
                                       THEN sCoalesce ELSE sIfnull)
                  \o sFROM \o Target \o sWHEREtrue)

\* The null-coalescing function the configuration selects.
NullFn == IF GRPC_SQL_DRIVER = "pgsql" THEN sCoalesce ELSE sIfnull

\* A nullable field of a kind that has no null-default literal.
Unsupported(i) == IsNullable(i) /\ KindOf(typ[i].Type) = "other"

RECURSIVE PlaceholderNames(_)
PlaceholderNames(text) ==
    IF ~Contains(text, sColon) THEN <<>>
    ELSE LET rest == After(text, sColon)
             stop == {k \in 1..Len(rest) : rest[k] \notin NameRunes}
             n    == IF stop = {} THEN Len(rest)
                     ELSE (CHOOSE k \in stop : \A m \in stop : k <= m) - 1
         IN  <<SubSeq(rest, 1, n)>> \o PlaceholderNames(SubSeq(rest, n + 1, Len(rest)))

\* The values of the fields at the positions P, in declaration order.
RECURSIVE ValuesAt(_)
ValuesAt(P) ==
    IF P = {} THEN <<>>
    ELSE LET i == CHOOSE i \in P : \A j \in P : i <= j
         IN  <<source[i]>> \o ValuesAt(P \ {i})

\* The fields an update call sets.
MaskedFields ==
    {i \in Positions : /\ typ[i].Name \in DOMAIN call.fieldMask
                       /\ HasColumn(i) /\ ~IsPrimaryKey(i) /\ IsExported(i)}

====
